---------------------------- MODULE Spec2Model ----------------------------
(***************************************************************************)
(* State-machine model of clip-ranker/app.py: the process start-up that    *)
(* loads the OpenCLIP model, the image downloader safe_download and the    *)
(* POST /rank handler rank().                                              *)
(*                                                                         *)
(* Scores are integers: a cosine similarity is held in units of 1e-5       *)
(* before rounding and in units of 1e-4 after round(score, 4).             *)
(* An HTTP payload is a sequence of symbolic bytes; the read cap of        *)
(* 1_000_000 bytes is scaled down to ReadCap symbolic bytes.               *)
(***************************************************************************)
EXTENDS Integers, Sequences, FiniteSets, TLC

---------------------------------------------------------------------------
(* Bounds of the model *)

\* longest `images` list of a request handled alone
MaxImages == 4
\* number of requests that can be in flight in the concurrent specification
NumRequests == 2
\* r.raw.read(1_000_000), scaled to symbolic bytes (app.py:25)
ReadCap == 3

(* Program constants *)

\* results[:3] (app.py:67)
TopK == 3
\* jsonify(...) default status, and the status of the error response (app.py:67, 71)
StatusOK == 200
StatusBadRequest == 400

Reqs == 1..NumRequests

None == "None"

---------------------------------------------------------------------------
(* Request bodies *)

\* The scene values: two texts and one JSON value that is not text (a number).
NonText == "#5"
Texts == {"s1", "s2"}
IsText(s) == s \in Texts

\* Entries of `images`: A and B are well formed, X has no "thumb" key (or is
\* not an object at all), Y has no "url" key.
ItemA == [hasThumb |-> TRUE, thumb |-> "t1", hasUrl |-> TRUE, url |-> "a"]
ItemB == [hasThumb |-> TRUE, thumb |-> "t2", hasUrl |-> TRUE, url |-> "b"]
ItemX == [hasThumb |-> FALSE, thumb |-> "", hasUrl |-> TRUE, url |-> "c"]
ItemY == [hasThumb |-> TRUE, thumb |-> "t3", hasUrl |-> FALSE, url |-> ""]
Items == {ItemA, ItemB, ItemX, ItemY}
GoodItems == {ItemA, ItemB}

SeqUpTo(S, n) == UNION {[1..k -> S] : k \in 0..n}

\* json: the body parses as JSON; isObject: the parsed value is an object;
\* imagesList: the value of "images" is a list (otherwise a number).
MkBody(j, o, hs, s, hi, il, im) ==
    [json |-> j, isObject |-> o, hasScene |-> hs, scene |-> s,
     hasImages |-> hi, imagesList |-> il, images |-> im]

NoBody == MkBody(FALSE, FALSE, FALSE, "", FALSE, FALSE, <<>>)

MalformedBodies ==
    { MkBody(FALSE, FALSE, FALSE, "", FALSE, FALSE, <<>>),
      MkBody(TRUE, FALSE, FALSE, "", FALSE, FALSE, <<>>),
      MkBody(TRUE, TRUE, FALSE, "", TRUE, TRUE, <<ItemA>>),
      MkBody(TRUE, TRUE, TRUE, "s1", FALSE, FALSE, <<>>),
      MkBody(TRUE, TRUE, FALSE, "", FALSE, FALSE, <<>>),
      MkBody(TRUE, TRUE, TRUE, "s1", TRUE, FALSE, <<>>) }

ListBodies(scenes, items, n) ==
    { MkBody(TRUE, TRUE, TRUE, s, TRUE, TRUE, im) :
        s \in scenes, im \in SeqUpTo(items, n) }

\* The bodies of a request handled alone: the malformed ones, the lists of
\* well-formed entries up to MaxImages, and the lists with entries that lack
\* a key up to one entry fewer.
Bodies ==
    MalformedBodies \cup ListBodies({"s1"}, GoodItems, MaxImages)
                    \cup ListBodies({"s1"}, Items, MaxImages - 1)
                    \cup ListBodies({"s2"}, GoodItems, 2)
                    \cup ListBodies({NonText}, {ItemA}, 1)

\* The bodies of requests handled concurrently.
ConcBodies ==
    { MkBody(TRUE, TRUE, TRUE, "s1", TRUE, TRUE, <<>>),
      MkBody(TRUE, TRUE, TRUE, "s1", TRUE, TRUE, <<ItemA, ItemB>>),
      MkBody(TRUE, TRUE, FALSE, "", TRUE, TRUE, <<ItemA>>) }

\* The bodies used to exercise safe_download.
FetchBodies == ListBodies({"s1"}, {ItemA, ItemX}, 2)

---------------------------------------------------------------------------
(* HTTP responses to the GET of a thumb URL, and safe_download *)

Contents == {"c1", "c2"}

Rep(b, n) == [k \in 1..n |-> b]

\* An encoded image: header, the picture, padding pixels, end marker.
Img(c, pad) == <<"H", c>> \o Rep("p", pad) \o <<"E">>

Payloads ==
    { <<>>, Rep("x", 2), Rep("x", ReadCap + 1) }
      \cup { Img(c, 0) : c \in Contents }
      \cup { Img(c, ReadCap - 3) : c \in Contents }
      \cup { Img(c, ReadCap - 2) : c \in Contents }
      \cup { Img(c, 0) \o Rep("x", ReadCap - 2) : c \in Contents }

HttpResponses ==
    { [kind |-> "connection_error", status |-> 0, payload |-> <<>>],
      [kind |-> "timeout", status |-> 0, payload |-> <<>>],
      [kind |-> "http", status |-> 404, payload |-> Img("c1", 0)],
      [kind |-> "http", status |-> 500, payload |-> <<>>] }
      \cup { [kind |-> "http", status |-> 200, payload |-> p] : p \in Payloads }

Take(s, n) == SubSeq(s, 1, IF Len(s) < n THEN Len(s) ELSE n)


\* Image.open(BytesIO(content)).convert("RGB") succeeds on `content`: the
\* header, a picture, padding and the end marker are all there; bytes after
\* the end marker are not looked at.
Decodable(content) ==
    /\ Len(content) >= 3
    /\ content[1] = "H"
    /\ content[2] \in Contents
    /\ \E k \in 3..Len(content) :
          /\ content[k] = "E"
          /\ \A j \in 3..(k - 1) : content[j] = "p"

\* safe_download(url), given what the GET of url answers: requests.get raises
\* on a connection error or a timeout, raise_for_status raises on a 4xx/5xx,
\* r.raw.read(1_000_000) keeps at most the first ReadCap bytes, and a decode
\* error is caught like the rest.
safe_download(resp) ==
    IF resp.kind # "http" THEN None
    ELSE IF resp.status >= 400 THEN None
    ELSE LET content == Take(resp.payload, ReadCap)
         IN  IF Decodable(content) THEN content[2] ELSE None

---------------------------------------------------------------------------
(* Scoring *)

\* torch.cosine_similarity(img_features, text_features).item(), in units of
\* 1e-5, for the embeddings of a decoded picture and a scene text.  Under
\* "s2" the two pictures differ before rounding and agree after it.
CosSim(scene, c) ==
    CASE scene = "s1" /\ c = "c1" -> 31234
      [] scene = "s1" /\ c = "c2" -> 0 - 1204
      [] scene = "s2" /\ c = "c1" -> 28766
      [] scene = "s2" /\ c = "c2" -> 28774
      [] OTHER -> 0

\* round(score, 4): from units of 1e-5 to the nearest unit of 1e-4, a half
\* going to the even neighbour.
Round4(raw) ==
    LET q == raw \div 10
        rem == raw % 10
    IN  IF rem < 5 THEN q
        ELSE IF rem > 5 THEN q + 1
        ELSE IF q % 2 = 0 THEN q ELSE q + 1

\* The "url" of a recorded entry: item["url"], the display URL.
EntryUrlThumb(item) == item.thumb
EntryUrl(item) == item.url

\* The dict appended to results; idx is the position of the candidate in
\* `images`, kept by the model only to tell entries apart (it is no JSON key).
Entry(item, scene, img, idx) ==
    [url |-> EntryUrl(item), score |-> Round4(CosSim(scene, img)), idx |-> idx]

\* results.sort(key=lambda x: x["score"], reverse=True): a stable sort, so an
\* entry goes after every entry already placed whose score is not smaller.
RECURSIVE InsertDescUnstable(_, _)
InsertDescUnstable(s, e) ==
    IF s = <<>> THEN <<e>>
    ELSE IF Head(s).score > e.score
         THEN <<Head(s)>> \o InsertDescUnstable(Tail(s), e)
         ELSE <<e>> \o s

RECURSIVE InsertDesc(_, _)
InsertDesc(s, e) ==
    IF s = <<>> THEN <<e>>
    ELSE IF Head(s).score >= e.score
         THEN <<Head(s)>> \o InsertDesc(Tail(s), e)
         ELSE <<e>> \o s

RECURSIVE SortDesc(_)
SortDesc(s) ==
    IF s = <<>> THEN <<>>
    ELSE InsertDesc(SortDesc(SubSeq(s, 1, Len(s) - 1)), s[Len(s)])

\* results[:3]
TopTwo(s) == Take(s, TopK - 1)
TopSlice(s) == Take(s, TopK)

---------------------------------------------------------------------------
(* State *)

VARIABLES
    proc,           \* "init" | "serving" | "dead": the process
    modelState,     \* model, preprocess, tokenizer: "none" | "loaded" (module globals)
    body,           \* body[r]: the body of request r
    pc,             \* pc[r]: where the handler of request r stands
    text_features,  \* text_features[r]: the scene embedded, or None
    i,              \* i[r]: how many entries of images the loop has taken
    img,            \* img[r]: the image of the current candidate, or None
    results,        \* results[r]: the entries recorded so far
    response,       \* response[r]: what was returned
    respCount,      \* respCount[r]: number of responses produced (history)
    embedded,       \* embedded[r]: encode_text or encode_image has been called (history)
    modelFailure,   \* modelFailure[r]: a call of encode_text or encode_image failed (history)
    log,            \* log[r]: one record per candidate taken by the loop (history)
    lastFetch       \* the last GET and what safe_download made of it (history)

vars == <<proc, modelState, body, pc, text_features, i, img, results,
          response, respCount, embedded, modelFailure, log, lastFetch>>

NoResponse == [status |-> 0, error |-> "", entries |-> <<>>]
NoFetch == [resp |-> [kind |-> "none", status |-> 0, payload |-> <<>>], got |-> None]

Init ==
    /\ proc = "init"
    /\ modelState = "none"
    /\ body = [r \in Reqs |-> NoBody]
    /\ pc = [r \in Reqs |-> "idle"]
    /\ text_features = [r \in Reqs |-> None]
    /\ i = [r \in Reqs |-> 0]
    /\ img = [r \in Reqs |-> None]
    /\ results = [r \in Reqs |-> <<>>]
    /\ response = [r \in Reqs |-> NoResponse]
    /\ respCount = [r \in Reqs |-> 0]
    /\ embedded = [r \in Reqs |-> FALSE]
    /\ modelFailure = [r \in Reqs |-> FALSE]
    /\ log = [r \in Reqs |-> <<>>]
    /\ lastFetch = NoFetch


---------------------------------------------------------------------------
(* The messages str(e) of the exceptions the handler catches *)

ErrBadJson == "400 Bad Request: Failed to decode JSON object"
ErrNotObject == "'NoneType' object is not subscriptable"
ErrKey(k) == "'" \o k \o "'"
ErrTokenizer == "expected string or bytes-like object"
ErrEncodeText == "encode_text failed"
ErrNotIterable == "'int' object is not iterable"

\* Lines 34-37: get_json(force=True), data["scene"], data["images"].
ParseOutcomeLazyImages(b) ==
    IF ~b.json THEN [ok |-> FALSE, err |-> ErrBadJson]
    ELSE IF ~b.isObject THEN [ok |-> FALSE, err |-> ErrNotObject]
    ELSE IF ~b.hasScene THEN [ok |-> FALSE, err |-> ErrKey("scene")]
    ELSE [ok |-> TRUE, err |-> ""]

ParseOutcome(b) ==
    IF ~b.json THEN [ok |-> FALSE, err |-> ErrBadJson]
    ELSE IF ~b.isObject THEN [ok |-> FALSE, err |-> ErrNotObject]
    ELSE IF ~b.hasScene THEN [ok |-> FALSE, err |-> ErrKey("scene")]
    ELSE IF ~b.hasImages THEN [ok |-> FALSE, err |-> ErrKey("images")]
    ELSE [ok |-> TRUE, err |-> ""]

\* `for item in images` can iterate.
Iterable(b) == b.imagesList

\* results is a local of the call: each request has its own list.
ResultsOwnerGlobal(r) == 1
ResultsOwner(r) == r

\* `for item in images` moves on to the next entry whatever the download gave.
NextIndexRetry(n, got) == IF got = None THEN n ELSE n + 1
NextIndex(n, got) == n + 1

\* Which failures of the per-image block (lines 53-64) end the request.
ScoreErrorAbortsEncode(out) == out = "encode_error"
ScoreErrorAborts(out) == FALSE

---------------------------------------------------------------------------
(* Actions *)

\* Lines 69-71: the top-level except.
Respond400(r, msg) ==
    /\ response' = [response EXCEPT ![r] =
                      [status |-> StatusBadRequest, error |-> msg, entries |-> <<>>]]
    /\ respCount' = [respCount EXCEPT ![r] = @ + 1]
    /\ pc' = [pc EXCEPT ![r] = "done"]

\* Lines 14-18: the model is loaded before the server starts; a failure to
\* load ends the process.
Startup ==
    /\ proc = "init"
    /\ \E ok \in BOOLEAN :
         IF ok THEN proc' = "serving" /\ modelState' = "loaded"
               ELSE proc' = "dead" /\ modelState' = "none"
    /\ UNCHANGED <<body, pc, text_features, i, img, results, response,
                   respCount, embedded, modelFailure, log, lastFetch>>

\* Lines 31-32: a POST /rank is dispatched to rank().
Arrive(r, b) ==
    /\ proc = "serving"
    /\ pc[r] = "idle"
    /\ body' = [body EXCEPT ![r] = b]
    /\ pc' = [pc EXCEPT ![r] = "parse"]
    /\ UNCHANGED <<proc, modelState, text_features, i, img, results, response,
                   respCount, embedded, modelFailure, log, lastFetch>>

\* Lines 34-37.
ParseBody(r) ==
    /\ pc[r] = "parse"
    /\ LET o == ParseOutcome(body[r])
       IN  IF o.ok
           THEN /\ pc' = [pc EXCEPT ![r] = "tokenize"]
                /\ UNCHANGED <<response, respCount>>
           ELSE Respond400(r, o.err)
    /\ UNCHANGED <<proc, modelState, body, text_features, i, img, results,
                   embedded, modelFailure, log, lastFetch>>

\* Lines 40-42: tokenizer([scene]), results = [].
Tokenize(r) ==
    /\ pc[r] = "tokenize"
    /\ IF IsText(body[r].scene)
       THEN /\ pc' = [pc EXCEPT ![r] = "encode_text"]
            /\ results' = [results EXCEPT ![ResultsOwner(r)] = <<>>]
            /\ UNCHANGED <<response, respCount>>
       ELSE /\ Respond400(r, ErrTokenizer)
            /\ UNCHANGED results
    /\ UNCHANGED <<proc, modelState, body, text_features, i, img,
                   embedded, modelFailure, log, lastFetch>>

\* Lines 44-46: model.encode_text(text_tokens).float(); the invocation can fail.
EncodeText(r) ==
    /\ pc[r] = "encode_text"
    /\ embedded' = [embedded EXCEPT ![r] = TRUE]
    /\ \E ok \in BOOLEAN :
         /\ modelFailure' = [modelFailure EXCEPT ![r] = ~ok]
         /\ IF ok
            THEN /\ text_features' = [text_features EXCEPT ![r] = body[r].scene]
                 /\ pc' = [pc EXCEPT ![r] = "loop"]
                 /\ UNCHANGED <<response, respCount>>
            ELSE /\ Respond400(r, ErrEncodeText)
                 /\ UNCHANGED text_features
    /\ UNCHANGED <<proc, modelState, body, i, img, results, log, lastFetch>>

\* Lines 48-51: the loop takes the next entry, reads item["thumb"] (a KeyError
\* there is outside the per-image try) and downloads it; rec says whether the
\* GET is kept in lastFetch.
Download(r, rec) ==
    /\ pc[r] = "loop"
    /\ Iterable(body[r])
    /\ i[r] < Len(body[r].images)
    /\ LET item == body[r].images[i[r] + 1]
       IN  IF ~item.hasThumb
           THEN /\ Respond400(r, ErrKey("thumb"))
                /\ i' = [i EXCEPT ![r] = @ + 1]
                /\ UNCHANGED <<img, log, lastFetch>>
           ELSE \E resp \in HttpResponses :
                  LET got == safe_download(resp)
                  IN  /\ i' = [i EXCEPT ![r] = NextIndex(@, got)]
                      /\ img' = [img EXCEPT ![r] = got]
                      /\ log' = [log EXCEPT ![r] = Append(@,
                                   [idx |-> i[r] + 1, thumb |-> item.thumb, got |-> got,
                                    outcome |-> IF got = None THEN "skipped" ELSE "fetched"])]
                      /\ pc' = [pc EXCEPT ![r] = IF got = None THEN "loop" ELSE "score"]
                      /\ lastFetch' = IF rec THEN [resp |-> resp, got |-> got] ELSE NoFetch
                      /\ UNCHANGED <<response, respCount>>
    /\ UNCHANGED <<proc, modelState, body, text_features, results, embedded,
                   modelFailure>>

\* Lines 53-64: preprocess, encode_image, cosine_similarity, append; any
\* exception in there (item["url"] missing included) is caught and printed.
Score(r) ==
    /\ pc[r] = "score"
    /\ \E out \in {"ok", "preprocess_error", "encode_error"} :
         LET item == body[r].images[i[r]]
             recorded == out = "ok" /\ item.hasUrl
         IN  /\ embedded' = [embedded EXCEPT ![r] = @ \/ out # "preprocess_error"]
             /\ modelFailure' = [modelFailure EXCEPT ![r] = @ \/ out = "encode_error"]
             /\ IF out # "ok" /\ ScoreErrorAborts(out)
                THEN /\ Respond400(r, "encode_image failed")
                     /\ UNCHANGED <<results, log>>
                ELSE /\ results' = [results EXCEPT ![ResultsOwner(r)] =
                          IF recorded
                          THEN Append(@, Entry(item, text_features[r], img[r], i[r]))
                          ELSE @]
                     /\ log' = [log EXCEPT ![r][Len(log[r])].outcome =
                                  IF recorded THEN "recorded"
                                  ELSE IF out = "ok" THEN "no_url" ELSE "skipped"]
                     /\ pc' = [pc EXCEPT ![r] = "loop"]
                     /\ UNCHANGED <<response, respCount>>
    /\ UNCHANGED <<proc, modelState, body, text_features, i, img, lastFetch>>

\* Line 48 when images cannot be iterated, and lines 66-67 when the loop is over.
Finish(r) ==
    /\ pc[r] = "loop"
    /\ IF ~Iterable(body[r])
       THEN Respond400(r, ErrNotIterable)
       ELSE /\ i[r] = Len(body[r].images)
            /\ response' = [response EXCEPT ![r] =
                 [status |-> StatusOK, error |-> "",
                  entries |-> TopSlice(SortDesc(results[ResultsOwner(r)]))]]
            /\ respCount' = [respCount EXCEPT ![r] = @ + 1]
            /\ pc' = [pc EXCEPT ![r] = "done"]
    /\ UNCHANGED <<proc, modelState, body, text_features, i, img, results,
                   embedded, modelFailure, log, lastFetch>>

Handler(r, rec) ==
    \/ ParseBody(r)
    \/ Tokenize(r)
    \/ EncodeText(r)
    \/ Download(r, rec)
    \/ Score(r)
    \/ Finish(r)

\* One request, handled alone.
Next ==
    \/ Startup
    \/ \E b \in Bodies : Arrive(1, b)
    \/ Handler(1, FALSE)

Spec == Init /\ [][Next]_vars

\* Requests handled concurrently by the threads of the server.
NextConc ==
    \/ Startup
    \/ \E r \in Reqs : \E b \in ConcBodies : Arrive(r, b)
    \/ \E r \in Reqs : Handler(r, FALSE)

SpecConc == Init /\ [][NextConc]_vars

\* One request, with every GET kept for inspection.
NextFetch ==
    \/ Startup
    \/ \E b \in FetchBodies : Arrive(1, b)
    \/ Handler(1, TRUE)

SpecFetch == Init /\ [][NextFetch]_vars


---------------------------------------------------------------------------
(* Vocabulary of the properties *)

Done(r) == pc[r] = "done"

Min(a, b) == IF a < b THEN a ELSE b

\* The body parses to an object that has "scene" and "images".
HasFields(b) == b.json /\ b.isObject /\ b.hasScene /\ b.hasImages

\* The body has `scene` and a list `images`.
HasSceneAndList(b) == HasFields(b) /\ b.imagesList

\* The candidates of request r that were downloaded, preprocessed, scored and
\* recorded.
RecordedIdx(r) == {k \in 1..Len(log[r]) : log[r][k].outcome = "recorded"}

\* The candidates of request r that were downloaded, preprocessed and scored;
\* one whose entry has no "url" is scored and then dropped.
ScoredIdx(r) == {k \in 1..Len(log[r]) : log[r][k].outcome \in {"recorded", "no_url"}}

\* encode_text was called for request r and failed.
EncodeTextFailed(r) == embedded[r] /\ text_features[r] = None

\* Some entry of `images` has no "thumb".
SomeEntryWithoutThumb(b) == \E k \in 1..Len(b.images) : ~b.images[k].hasThumb

\* Request r met an error the handler answers with 400.
RequestError(r) ==
    \/ ~HasFields(body[r])
    \/ ~IsText(body[r].scene)
    \/ EncodeTextFailed(r)
    \/ ~body[r].imagesList
    \/ SomeEntryWithoutThumb(body[r])

---------------------------------------------------------------------------
(* C1 *)

\* C1 as stated: every finished request whose body has `scene` and a list
\* `images` is answered 200 with exactly min(N, 3) entries, N being the number
\* of candidates downloaded, preprocessed and scored successfully.
C1_AsStated ==
    \A r \in Reqs :
      (Done(r) /\ HasSceneAndList(body[r])) =>
        /\ response[r].status = StatusOK
        /\ Len(response[r].entries) = Min(Cardinality(ScoredIdx(r)), TopK)

\* C1 amended: such a request is answered 400 when its scene cannot be
\* tokenized, when encode_text fails or when an entry of `images` has no
\* "thumb"; in every other case it is answered 200 with exactly min(N, 3)
\* entries, N counting the candidates downloaded, preprocessed, scored and
\* recorded under their "url", so with an empty array when `images` is empty
\* or every download failed.
C1_TopCount ==
    \A r \in Reqs :
      (Done(r) /\ HasSceneAndList(body[r])) =>
        IF RequestError(r)
        THEN response[r].status = StatusBadRequest
        ELSE /\ response[r].status = StatusOK
             /\ Len(response[r].entries) = Min(Cardinality(RecordedIdx(r)), TopK)
             /\ (\A k \in 1..Len(log[r]) : log[r][k].got = None)
                   => response[r].entries = <<>>

\* A request with four recorded candidates is answered with three entries.
C1_Witness ==
    /\ Done(1)
    /\ Cardinality(RecordedIdx(1)) = 4
    /\ response[1].status = StatusOK
    /\ Len(response[1].entries) = 3

---------------------------------------------------------------------------
(* C2 *)

\* Entry x comes before entry y in the order of the response: a higher score,
\* or the same score and an earlier place in `images`.
Before(x, y) == x.score > y.score \/ (x.score = y.score /\ x.idx < y.idx)

\* C2: the entries of a 200 response are in descending order of score, entries
\* of equal rounded score in the order of their candidates in `images`, and
\* every recorded entry that was left out comes after every entry returned.
C2_StableDescending ==
    \A r \in Reqs :
      (Done(r) /\ response[r].status = StatusOK) =>
        LET e == response[r].entries
            all == {results[r][k] : k \in 1..Len(results[r])}
            kept == {e[k] : k \in 1..Len(e)}
        IN  /\ \A a, b \in 1..Len(e) : a < b => Before(e[a], e[b])
            /\ kept \subseteq all
            /\ \A x \in all \ kept : \A y \in kept : Before(y, x)

\* Four candidates recorded, two returned entries tie, and the entry left out
\* ties with the last one returned.
C2_Witness ==
    /\ Done(1)
    /\ response[1].status = StatusOK
    /\ Len(results[1]) = 4
    /\ Len(response[1].entries) = 3
    /\ response[1].entries[1].score > response[1].entries[2].score
    /\ response[1].entries[2].score = response[1].entries[3].score
    /\ \A k \in 1..4 : results[1][k].score >= response[1].entries[3].score
    /\ results[1][1].score < results[1][2].score

---------------------------------------------------------------------------
(* C3 *)

\* C3 as stated: when the body has `scene` and `images` and the scene was
\* embedded, an error confined to one candidate (an entry that cannot be
\* processed included) only drops that candidate: the answer is 200 and every
\* recorded candidate is among the results.
C3_AsStated ==
    \A r \in Reqs :
      (/\ Done(r)
       /\ HasSceneAndList(body[r])
       /\ IsText(body[r].scene)
       /\ text_features[r] # None) =>
        /\ response[r].status = StatusOK
        /\ \A k \in RecordedIdx(r) :
             \E n \in 1..Len(results[r]) : results[r][n].idx = k

---------------------------------------------------------------------------
(* C4 *)

---------------------------------------------------------------------------
(* C5 *)

\* The request-level errors C5 lists: malformed JSON, a missing field, a
\* tokenizer failure, a failed model invocation.
ListedError(r) ==
    \/ ~HasFields(body[r])
    \/ (pc[r] = "done" /\ ~IsText(body[r].scene))
    \/ modelFailure[r]

\* C5 as stated: every listed error, the failure of any model invocation
\* included, ends in a 400 that carries only the error; each request gets
\* exactly one response, a 200 array or a 400 error object.
C5_AsStated ==
    \A r \in Reqs :
      Done(r) =>
        /\ respCount[r] = 1
        /\ response[r].status \in {StatusOK, StatusBadRequest}
        /\ ListedError(r) =>
             (response[r].status = StatusBadRequest /\ response[r].entries = <<>>)

\* C5 amended: malformed JSON, a missing `scene` or `images`, a tokenizer
\* failure and a failure of encode_text end in a 400 that carries only the
\* error (so do an `images` that cannot be iterated and an entry without
\* "thumb"); a failure of encode_image for one candidate drops that candidate
\* and does not make the answer a 400; the handler never leaves through an
\* uncaught exception and each request gets exactly one response, a 200 array
\* or a 400 error object.
C5_RequestErrors ==
    \A r \in Reqs :
      /\ pc[r] \in {"idle", "parse", "tokenize", "encode_text", "loop", "score", "done"}
      /\ respCount[r] = (IF Done(r) THEN 1 ELSE 0)
      /\ ~Done(r) => response[r] = NoResponse
      /\ Done(r) =>
           IF RequestError(r)
           THEN /\ response[r].status = StatusBadRequest
                /\ response[r].entries = <<>>
           ELSE /\ response[r].status = StatusOK
                /\ response[r].error = ""

\* encode_text failed and the request was answered 400.
C5_Witness ==
    /\ Done(1)
    /\ HasSceneAndList(body[1])
    /\ IsText(body[1].scene)
    /\ EncodeTextFailed(1)
    /\ response[1].status = StatusBadRequest
    /\ response[1].error = ErrEncodeText

---------------------------------------------------------------------------
(* C6 *)

\* The GET failed in one of the ways C6 lists.
ListedFetchFailure(resp) ==
    \/ resp.kind \in {"connection_error", "timeout"}
    \/ resp.status >= 400
    \/ Len(resp.payload) > ReadCap
    \/ ~Decodable(resp.payload)

\* C6 as stated: safe_download gives None on every listed failure, a payload
\* above the cap included, and gives an image only when the whole payload was
\* within the cap and decoded.
C6_AsStated ==
    lastFetch.resp.kind # "none" =>
      /\ ListedFetchFailure(lastFetch.resp) => lastFetch.got = None
      /\ lastFetch.got # None =>
           /\ lastFetch.resp.kind = "http"
           /\ lastFetch.resp.status < 400
           /\ Len(lastFetch.resp.payload) <= ReadCap
           /\ Decodable(lastFetch.resp.payload)

---------------------------------------------------------------------------
(* C7 *)

\* C7: every entry of a 200 response stands for one candidate of the request,
\* fetched through its "thumb" and recorded: the entry has the "url" of that
\* candidate, not its "thumb", and the rounded similarity of what was fetched
\* against the scene of the request; no candidate gives two entries.
C7_EntriesAreCandidates ==
    \A r \in Reqs :
      (Done(r) /\ response[r].status = StatusOK) =>
        LET e == response[r].entries
            im == body[r].images
        IN  /\ \A a \in 1..Len(e) :
                 LET k == e[a].idx
                 IN  /\ k \in 1..Len(im)
                     /\ k \in 1..Len(log[r])
                     /\ im[k].hasThumb /\ im[k].hasUrl
                     /\ log[r][k].thumb = im[k].thumb
                     /\ log[r][k].outcome = "recorded"
                     /\ log[r][k].got \in Contents
                     /\ e[a].url = im[k].url
                     /\ e[a].url # im[k].thumb
                     /\ e[a].score * 10 - CosSim(body[r].scene, log[r][k].got) \in -5..5
            /\ \A a, b \in 1..Len(e) : a # b => e[a].idx # e[b].idx

\* The answer to <<A, B>> under "s1" where A gave picture c2 and B gave c1.
C7_Witness ==
    /\ Done(1)
    /\ body[1].scene = "s1"
    /\ body[1].images = <<ItemA, ItemB>>
    /\ response[1].status = StatusOK
    /\ response[1].entries = << [url |-> "b", score |-> 3123, idx |-> 2],
                                [url |-> "a", score |-> 0 - 120, idx |-> 1] >>

---------------------------------------------------------------------------
(* C8 *)

\* C8: the candidates are taken one at a time in the order of `images`; each
\* is fetched at most once, failed or not, and the next one is fetched only
\* when the one before was recorded or skipped.
C8_SequentialNoRetry ==
    \A r \in Reqs :
      /\ Len(log[r]) <= Len(body[r].images)
      /\ \A k \in 1..Len(log[r]) :
           /\ log[r][k].idx = k
           /\ log[r][k].thumb = body[r].images[k].thumb
           /\ (log[r][k].outcome = "fetched") <=> (k = Len(log[r]) /\ pc[r] = "score")
           /\ log[r][k].got = None => log[r][k].outcome = "skipped"

\* Three candidates were taken, the first download failed and was not repeated.
C8_Witness ==
    /\ Done(1)
    /\ Len(body[1].images) = 3
    /\ Len(log[1]) = 3
    /\ log[1][1].got = None
    /\ log[1][2].outcome = "recorded"
    /\ log[1][3].outcome = "skipped"


---------------------------------------------------------------------------
(* C9 *)

\* What request r records when nothing but its own body, its own downloads and
\* its own model invocations count: one entry per candidate it recorded, in
\* the order of `images`.
RECURSIVE OwnEntriesUpTo(_, _)
OwnEntriesUpTo(r, n) ==
    IF n = 0 THEN <<>>
    ELSE LET prev == OwnEntriesUpTo(r, n - 1)
         IN  IF log[r][n].outcome = "recorded"
             THEN Append(prev, [url |-> body[r].images[n].url,
                                score |-> Round4(CosSim(body[r].scene, log[r][n].got)),
                                idx |-> n])
             ELSE prev

OwnEntries(r) == OwnEntriesUpTo(r, Len(log[r]))

\* e is the answer made of the entries `own` alone: the first TopK of them in
\* descending order of score, ties in the order of `images`.
IsRankingOf(e, own) ==
    LET all == {own[k] : k \in 1..Len(own)}
        kept == {e[k] : k \in 1..Len(e)}
    IN  /\ Len(e) = Min(Len(own), TopK)
        /\ kept \subseteq all
        /\ \A a, b \in 1..Len(e) : a < b => Before(e[a], e[b])
        /\ \A x \in all \ kept : \A y \in kept : Before(y, x)

\* C9: the model, the transform and the tokenizer are loaded before any
\* request is handled and stay as loaded while requests run; under every
\* interleaving a request accumulates only its own entries, and its answer is
\* the one its own body, downloads and model invocations give.
C9_Isolation ==
    \A r \in Reqs :
      /\ pc[r] # "idle" => (proc = "serving" /\ modelState = "loaded")
      /\ pc[r] \in {"loop", "score"} => results[r] = OwnEntries(r)
      /\ Done(r) =>
           IF RequestError(r)
           THEN response[r].status = StatusBadRequest /\ response[r].entries = <<>>
           ELSE /\ response[r].status = StatusOK
                /\ IsRankingOf(response[r].entries, OwnEntries(r))

\* Request 1 was answered with its own entry while request 2, in the middle of
\* its loop, holds an entry of its own for another candidate.
C9_Witness ==
    /\ Done(1)
    /\ response[1].status = StatusOK
    /\ Len(response[1].entries) = 1
    /\ pc[2] = "loop"
    /\ Len(results[2]) = 1
    /\ results[2][1].url # response[1].entries[1].url

---------------------------------------------------------------------------
(* C10 *)

\* C10 as stated: two requests with the same body get the same response.
C10_AsStated ==
    \A r1, r2 \in Reqs :
      (Done(r1) /\ Done(r2) /\ body[r1] = body[r2]) => response[r1] = response[r2]

\* C10 amended: two requests with the same body, whose downloads of each
\* thumb and whose model invocations had the same outcomes, get the same
\* response: same status, same entries in the same order with the same scores.
C10_SameOutcomesSameResponse ==
    \A r1, r2 \in Reqs :
      (/\ Done(r1) /\ Done(r2)
       /\ body[r1] = body[r2]
       /\ log[r1] = log[r2]
       /\ text_features[r1] = text_features[r2]) => response[r1] = response[r2]

\* Two requests with the same two-candidate body, the downloads giving the
\* same pictures in both, both answered with the same two entries.
C10_Witness ==
    /\ Done(1) /\ Done(2)
    /\ body[1] = body[2]
    /\ Len(body[1].images) = 2
    /\ log[1] = log[2]
    /\ Len(response[1].entries) = 2
    /\ response[1] = response[2]

=============================================================================
